---------------------------- MODULE Spec2Model ----------------------------
(***************************************************************************)
(* Model of the two scripts of the repository:                             *)
(*   convert_tool_error.py     the ToolError -> ErrorData rewrite script   *)
(*   .github/scripts/send_key.py   the key issuance script                 *)
(*                                                                         *)
(* Text is modelled as a sequence of tokens.  A token stands for the       *)
(* string of the same spelling ("NL" stands for a newline, "A" for an      *)
(* identifier).  No token contains one of the characters , < > ( ) { } ;   *)
(* unless it is that character, and no token contains another token's      *)
(* spelling, so every literal and every character class of the script's    *)
(* regular expressions matches whole tokens.                               *)
(***************************************************************************)
EXTENDS Naturals, Sequences, FiniteSets

VARIABLES
    \* convert_tool_errors applied to one content, twice
    rpc, content0, pass1, pass2,
    \* one run of convert_tool_error.py
    mpc, tree, rust_files, disk, idx, updated_count, results, log, mexit,
    \* one run of send_key.py
    kpc, pr_body, email, calls, email_raised, kfail, kexit

rvars == <<rpc, content0, pass1, pass2>>
mvars == <<mpc, tree, rust_files, disk, idx, updated_count, results, log, mexit>>
kvars == <<kpc, pr_body, email, calls, email_raised, kfail, kexit>>
vars  == <<rvars, mvars, kvars>>

(***************************************************************************)
(* String helpers (Python str / re primitives on token sequences).         *)
(***************************************************************************)

\* s[i:].startswith(lit)
HasAt(s, i, lit) ==
    /\ i >= 1
    /\ i + Len(lit) - 1 <= Len(s)
    /\ SubSeq(s, i, i + Len(lit) - 1) = lit

\* lit in s
Contains(s, lit) == \E i \in 1..(Len(s) + 1) : HasAt(s, i, lit)

\* The first index >= i whose token is in stop, Len(s) + 1 when there is none:
\* the end of the greedy run of a negated character class.
RECURSIVE RunEnd(_, _, _)
RunEnd(s, i, stop) ==
    IF i > Len(s) \/ s[i] \in stop THEN i ELSE RunEnd(s, i + 1, stop)

WhiteSpace == {" ", "NL"}

\* The first index >= i that is not whitespace: the end of \s*
RECURSIVE SkipWS(_, _)
SkipWS(s, i) ==
    IF i <= Len(s) /\ s[i] \in WhiteSpace THEN SkipWS(s, i + 1) ELSE i

\* str.strip()
RECURSIVE strip(_)
strip(s) ==
    IF s = <<>> THEN s
    ELSE IF s[1] \in WhiteSpace THEN strip(Tail(s))
    ELSE IF s[Len(s)] \in WhiteSpace THEN strip(SubSeq(s, 1, Len(s) - 1))
    ELSE s

\* str.split(sep) for a one-token separator: a sequence of pieces
RECURSIVE split(_, _)
split(s, sep) ==
    LET k == RunEnd(s, 1, {sep})
    IN  IF k > Len(s) THEN <<s>>
        ELSE <<SubSeq(s, 1, k - 1)>> \o split(SubSeq(s, k + 1, Len(s)), sep)

\* sep.join(pieces)
RECURSIVE join(_, _)
join(pieces, sep) ==
    IF pieces = <<>> THEN <<>>
    ELSE IF Len(pieces) = 1 THEN pieces[1]
    ELSE pieces[1] \o sep \o join(Tail(pieces), sep)

NoMatch == [ok |-> FALSE, end |-> 0, out |-> <<>>]

(***************************************************************************)
(* convert_tool_errors: the patterns.  Each XMatch(.., s, i) is the match  *)
(* of one regular expression anchored at index i of s: whether it matches, *)
(* the index after the match, and the expanded replacement.                *)
(***************************************************************************)

\* Group 1 of the signature patterns, [^,<>]+(?:<[^<>]*>)?[^,<>]* followed by
\* a comma: the index of that comma, 0 when the group does not match at j.
SigGroupEnd(s, j) ==
    LET k == RunEnd(s, j, {",", "<", ">"})
    IN  IF k = j \/ k > Len(s) THEN 0
        ELSE IF s[k] = "," THEN k
        ELSE IF s[k] = "<"
             THEN LET m == RunEnd(s, k + 1, {"<", ">"})
                  IN  IF m > Len(s) \/ s[m] # ">" THEN 0
                      ELSE LET n == RunEnd(s, m + 1, {",", "<", ">"})
                           IN  IF n <= Len(s) /\ s[n] = "," THEN n ELSE 0
        ELSE 0

\* r'Result<([^,<>]+(?:<[^<>]*>)?[^,<>]*),\s*ToolError>'  (anyws)
\* r'-> Result<([^,<>]+(?:<[^<>]*>)?[^,<>]*), ToolError>' (pre = "-> ", one space)
\* replaced by pre + r'Result<\1, ErrorData>'
SigMatch(pre, anyws, s, i) ==
    LET head == pre \o <<"Result", "<">>
        j    == i + Len(head)
        c    == SigGroupEnd(s, j)
        t    == IF anyws THEN SkipWS(s, c + 1) ELSE c + 2
    IN  IF /\ HasAt(s, i, head)
           /\ c # 0
           /\ (anyws \/ HasAt(s, c + 1, <<" ">>))
           /\ HasAt(s, t, <<"ToolError", ">">>)
        THEN [ok  |-> TRUE,
              end |-> t + 2,
              out |-> head \o SubSeq(s, j, c - 1) \o <<",", " ", "ErrorData", ">">>]
        ELSE NoMatch

VecContentLit ==
    <<"-", ">", " ", "Result", "<", "Vec", "<", "Content", ">", ",", " ">>

\* r'-> Result<Vec<Content>, ToolError>' -> r'-> Result<Vec<Content>, ErrorData>'
VecMatch(s, i) ==
    IF HasAt(s, i, VecContentLit \o <<"ToolError", ">">>)
    THEN [ok  |-> TRUE,
          end |-> i + Len(VecContentLit) + 2,
          out |-> VecContentLit \o <<"ErrorData", ">">>]
    ELSE NoMatch

ErrorDataNew(code, arg) ==
    <<"ErrorData", "::", "new", "(", "ErrorCode", "::", code, ",", " ">>
        \o arg \o <<",", " ", "None", ")">>

\* r'ToolError::V\(([^()]+)\)' -> r'ErrorData::new(ErrorCode::C, \1, None)'
CtorMatch(variant, code, s, i) ==
    LET head == <<"ToolError", "::", variant, "(">>
        j    == i + Len(head)
        k    == RunEnd(s, j, {"(", ")"})
    IN  IF HasAt(s, i, head) /\ k > j /\ k <= Len(s) /\ s[k] = ")"
        THEN [ok  |-> TRUE,
              end |-> k + 1,
              out |-> ErrorDataNew(code, SubSeq(s, j, k - 1))]
        ELSE NoMatch

\* r'ToolError::V\(format!\(([^)]+)\)\)' -> r'ErrorData::new(ErrorCode::C, format!(\1), None)'
FormatMatch(variant, code, s, i) ==
    LET head == <<"ToolError", "::", variant, "(", "format!", "(">>
        j    == i + Len(head)
        k    == RunEnd(s, j, {")"})
    IN  IF HasAt(s, i, head) /\ k > j /\ HasAt(s, k, <<")", ")">>)
        THEN [ok  |-> TRUE,
              end |-> k + 2,
              out |-> ErrorDataNew(code,
                         <<"format!", "(">> \o SubSeq(s, j, k - 1) \o <<")">>)]
        ELSE NoMatch

\* imports = [imp.strip() for imp in imports if imp.strip() and imp.strip() != 'ToolError']
RECURSIVE KeepImports(_)
KeepImports(pieces) ==
    IF pieces = <<>> THEN <<>>
    ELSE LET imp == strip(pieces[1])
         IN  (IF imp # <<>> /\ imp # <<"ToolError">> THEN <<imp>> ELSE <<>>)
                 \o KeepImports(Tail(pieces))

\* replace_use_multi / replace_use_handler, given the two groups
replace_use(head, before, after) ==
    LET imports == KeepImports(split(before \o after, ","))
    IN  IF imports # <<>>
        THEN head \o join(imports, <<",", " ">>) \o <<"}", ";">>
        ELSE <<>>

\* r'use mcp_core::\{([^}]*?)ToolError([^}]*?)\};' and the handler:: form
UseMatch(head, s, i) ==
    LET j == i + Len(head)
        c == RunEnd(s, j, {"}"})
        t == RunEnd(s, j, {"ToolError", "}"})
    IN  IF HasAt(s, i, head) /\ t < c /\ HasAt(s, c, <<"}", ";">>)
        THEN [ok  |-> TRUE,
              end |-> c + 2,
              out |-> replace_use(head, SubSeq(s, j, t - 1), SubSeq(s, t + 1, c - 1))]
        ELSE NoMatch

UseMulti   == <<"use", " ", "mcp_core", "::", "{">>
UseHandler == <<"use", " ", "mcp_core", "::", "handler", "::", "{">>

\* Mutant of Patterns: the error codes of NotFound and ExecutionError swapped
PatternsSwappedCodes ==
    << [kind |-> "sig",    pre |-> <<>>,                anyws |-> TRUE],
       [kind |-> "vec"],
       [kind |-> "sig",    pre |-> <<"-", ">", " ">>,   anyws |-> FALSE],
       [kind |-> "ctor",   variant |-> "ExecutionError",    code |-> "INVALID_REQUEST"],
       [kind |-> "ctor",   variant |-> "InvalidParameters", code |-> "INVALID_PARAMS"],
       [kind |-> "ctor",   variant |-> "NotFound",          code |-> "INTERNAL_ERROR"],
       [kind |-> "ctor",   variant |-> "SchemaError",       code |-> "INVALID_PARAMS"],
       [kind |-> "format", variant |-> "ExecutionError",    code |-> "INTERNAL_ERROR"],
       [kind |-> "format", variant |-> "InvalidParameters", code |-> "INVALID_PARAMS"],
       [kind |-> "format", variant |-> "NotFound",          code |-> "INVALID_REQUEST"],
       [kind |-> "format", variant |-> "SchemaError",       code |-> "INVALID_PARAMS"],
       [kind |-> "use",    head |-> UseMulti],
       [kind |-> "use",    head |-> UseHandler] >>

\* The (pattern, replacement) pairs in the order convert_tool_errors applies them.
Patterns ==
    << [kind |-> "sig",    pre |-> <<>>,                anyws |-> TRUE],
       [kind |-> "vec"],
       [kind |-> "sig",    pre |-> <<"-", ">", " ">>,   anyws |-> FALSE],
       [kind |-> "ctor",   variant |-> "ExecutionError",    code |-> "INTERNAL_ERROR"],
       [kind |-> "ctor",   variant |-> "InvalidParameters", code |-> "INVALID_PARAMS"],
       [kind |-> "ctor",   variant |-> "NotFound",          code |-> "INVALID_REQUEST"],
       [kind |-> "ctor",   variant |-> "SchemaError",       code |-> "INVALID_PARAMS"],
       [kind |-> "format", variant |-> "ExecutionError",    code |-> "INTERNAL_ERROR"],
       [kind |-> "format", variant |-> "InvalidParameters", code |-> "INVALID_PARAMS"],
       [kind |-> "format", variant |-> "NotFound",          code |-> "INVALID_REQUEST"],
       [kind |-> "format", variant |-> "SchemaError",       code |-> "INVALID_PARAMS"],
       [kind |-> "use",    head |-> UseMulti],
       [kind |-> "use",    head |-> UseHandler] >>

Match(p, s, i) ==
    CASE p.kind = "sig"    -> SigMatch(p.pre, p.anyws, s, i)
      [] p.kind = "vec"    -> VecMatch(s, i)
      [] p.kind = "ctor"   -> CtorMatch(p.variant, p.code, s, i)
      [] p.kind = "format" -> FormatMatch(p.variant, p.code, s, i)
      [] p.kind = "use"    -> UseMatch(p.head, s, i)

\* re.sub(pattern, replacement, content): leftmost non-overlapping matches
RECURSIVE re_sub_from(_, _, _)
re_sub_from(p, s, i) ==
    IF i > Len(s) THEN <<>>
    ELSE LET m == Match(p, s, i)
         IN  IF m.ok THEN m.out \o re_sub_from(p, s, m.end)
             ELSE <<s[i]>> \o re_sub_from(p, s, i + 1)

re_sub(p, s) == re_sub_from(p, s, 1)

\* The loops over the patterns: content and changes_made after patterns n..
RECURSIVE ApplyFrom(_, _, _)
ApplyFrom(n, content, changes_made) ==
    IF n > Len(Patterns) THEN [content |-> content, changes_made |-> changes_made]
    ELSE LET new_content == re_sub(Patterns[n], content)
         IN  IF new_content # content
             THEN ApplyFrom(n + 1, new_content, TRUE)
             ELSE ApplyFrom(n + 1, content, changes_made)

convert_tool_errors(content) == ApplyFrom(1, content, FALSE)

(***************************************************************************)
(* add_imports_if_needed                                                   *)
(***************************************************************************)

ImportBoth ==
    <<"use", " ", "rmcp", "::", "model", "::", "{", "ErrorData", ",", " ", "ErrorCode", "}">>
ImportOne  == <<"use", " ", "rmcp", "::", "model", "::", "ErrorData">>

\* The largest i + 1 with lines[i].startswith('use '), 0 for None
RECURSIVE LastUseLine(_, _)
LastUseLine(lines, n) ==
    IF n = 0 THEN 0
    ELSE IF HasAt(lines[n], 1, <<"use", " ">>) THEN n
    ELSE LastUseLine(lines, n - 1)

add_imports_if_needed(content) ==
    IF Contains(content, <<"ErrorData">>) \/ Contains(content, <<"ErrorCode">>)
    THEN IF Contains(content, ImportBoth) \/ Contains(content, ImportOne)
         THEN content
         ELSE LET lines       == split(content, "NL")
                  import_line == LastUseLine(lines, Len(lines))
              IN  join(SubSeq(lines, 1, import_line)
                           \o <<ImportBoth \o <<";">>>>
                           \o SubSeq(lines, import_line + 1, Len(lines)),
                       <<"NL">>)
    ELSE content

(***************************************************************************)
(* process_file.  io is what the file system does to this call:            *)
(*   "ok"           every open, read and write succeeds                    *)
(*   "read_error"   open(file_path, 'r') or f.read() raises                *)
(*   "open_error"   open(file_path, 'w') raises, the file is untouched     *)
(*   "write_error"  f.write raises after open(file_path, 'w') truncated    *)
(* The result: the return value, the file's content afterwards, whether    *)
(* the file was opened for writing, whether an exception was caught.       *)
(***************************************************************************)
IOOutcomes == {"ok", "read_error", "open_error", "write_error"}

FileResult(ret, content, opened, caught) ==
    [ret |-> ret, content |-> content, opened |-> opened, caught |-> caught]

\* Mutant of process_file: the file is written back whether or not a rule
\* changed it
process_fileAlwaysWrites(file_path, content, io) ==
    IF io = "read_error" THEN FileResult(FALSE, content, FALSE, TRUE)
    ELSE IF ~Contains(content, <<"ToolError">>)
         THEN FileResult(FALSE, content, FALSE, FALSE)
    ELSE IF Contains(file_path, <<"/", "target", "/">>)
         THEN FileResult(FALSE, content, FALSE, FALSE)
    ELSE LET conv == convert_tool_errors(content)
         IN  CASE io = "open_error"  -> FileResult(FALSE, content, FALSE, TRUE)
               [] io = "write_error" -> FileResult(FALSE, <<>>, TRUE, TRUE)
               [] OTHER ->
                    FileResult(TRUE, add_imports_if_needed(conv.content), TRUE, FALSE)

\* Mutant of process_file: no test of the path for /target/
process_fileNoTargetCheck(file_path, content, io) ==
    IF io = "read_error" THEN FileResult(FALSE, content, FALSE, TRUE)
    ELSE IF ~Contains(content, <<"ToolError">>)
         THEN FileResult(FALSE, content, FALSE, FALSE)
    ELSE LET conv == convert_tool_errors(content)
         IN  IF conv.changes_made
             THEN CASE io = "open_error"  -> FileResult(FALSE, content, FALSE, TRUE)
                    [] io = "write_error" -> FileResult(FALSE, <<>>, TRUE, TRUE)
                    [] OTHER ->
                         FileResult(TRUE, add_imports_if_needed(conv.content), TRUE, FALSE)
             ELSE FileResult(FALSE, content, FALSE, FALSE)

process_file(file_path, content, io) ==
    IF io = "read_error" THEN FileResult(FALSE, content, FALSE, TRUE)
    ELSE IF ~Contains(content, <<"ToolError">>)
         THEN FileResult(FALSE, content, FALSE, FALSE)
    ELSE IF Contains(file_path, <<"/", "target", "/">>)
         THEN FileResult(FALSE, content, FALSE, FALSE)
    ELSE LET conv == convert_tool_errors(content)
         IN  IF conv.changes_made
             THEN CASE io = "open_error"  -> FileResult(FALSE, content, FALSE, TRUE)
                    [] io = "write_error" -> FileResult(FALSE, <<>>, TRUE, TRUE)
                    [] OTHER ->
                         FileResult(TRUE, add_imports_if_needed(conv.content), TRUE, FALSE)
             ELSE FileResult(FALSE, content, FALSE, FALSE)

(***************************************************************************)
(* The files under ./crates: paths are token sequences too.                *)
(***************************************************************************)
MaxFiles == 2

Paths ==
    { <<".", "/", "crates", "/", "a.rs">>,
      <<".", "/", "crates", "/", "target", "/", "b.rs">>,
      <<".", "/", "crates", "/", "target.rs">> }

NotFoundCall == <<"ToolError", "::", "NotFound", "(", "A", ")">>
ResultSig    == <<"Result", "<", "A", ",", " ", "ToolError", ">">>

FileContents ==
    { <<"A">>,
      <<"ToolError">>,
      NotFoundCall,
      <<"use", " ", "mcp_core", "::", "{", "ToolError", "}", ";", "NL">> \o ResultSig }

\* The trees: up to MaxFiles files of distinct paths, in the order find lists them
Trees ==
    { t \in UNION { [1..n -> [path : Paths, content : FileContents]] : n \in 0..MaxFiles } :
        \A i, j \in 1..Len(t) : i # j => t[i].path # t[j].path }

InitRulesIdle ==
    /\ rpc = "idle" /\ content0 = <<>> /\ pass1 = <<>> /\ pass2 = <<>>

InitMainIdle ==
    /\ mpc = "idle" /\ tree = <<>> /\ rust_files = <<>> /\ disk = <<>> /\ idx = 0
    /\ updated_count = 0 /\ results = <<>> /\ log = <<>> /\ mexit = "running"

InitKeyIdle ==
    /\ kpc = "idle" /\ pr_body = "unset" /\ email = "unset" /\ calls = <<>>
    /\ email_raised = FALSE /\ kfail = "none" /\ kexit = "running"

InitMain ==
    /\ mpc = "find"
    /\ tree \in Trees
    /\ disk = [i \in 1..Len(tree) |-> tree[i].content]
    /\ rust_files = <<>> /\ idx = 0 /\ updated_count = 0
    /\ results = <<>> /\ log = <<>> /\ mexit = "running"
    /\ InitRulesIdle /\ InitKeyIdle

\* find_rust_files: find ran and returned 0
FindOk ==
    /\ mpc = "find"
    /\ rust_files' = [i \in 1..Len(tree) |-> tree[i].path]
    /\ log' = Append(log, "find")
    /\ mpc' = "loop"
    /\ UNCHANGED <<tree, disk, idx, updated_count, results, mexit, rvars, kvars>>

\* find_rust_files: find returned non-zero (sys.exit(1)), or subprocess.run
\* raised because find could not be started (the exception ends the run)
FindFails ==
    /\ mpc = "find"
    /\ \E how \in {"find_returncode", "find_not_started"} : log' = Append(log, how)
    /\ mpc' = "done"
    /\ mexit' = "exit1"
    /\ UNCHANGED <<tree, rust_files, disk, idx, updated_count, results, rvars, kvars>>

\* Mutant of ProcessNext: the formatter is run inside the loop, after each file
ProcessNextThenFormat ==
    /\ mpc = "loop"
    /\ idx < Len(rust_files)
    /\ \E io \in IOOutcomes :
          LET k == idx + 1
              r == process_file(rust_files[k], disk[k], io)
          IN  /\ disk' = [disk EXCEPT ![k] = r.content]
              /\ results' = Append(results, r)
              /\ updated_count' = IF r.ret THEN updated_count + 1 ELSE updated_count
    /\ idx' = idx + 1
    /\ log' = log \o <<"process", "fmt">>
    /\ UNCHANGED <<mpc, tree, rust_files, mexit, rvars, kvars>>

\* One iteration of main's loop: process_file(rust_files[idx]) and the count
ProcessNext ==
    /\ mpc = "loop"
    /\ idx < Len(rust_files)
    /\ \E io \in IOOutcomes :
          LET k == idx + 1
              r == process_file(rust_files[k], disk[k], io)
          IN  /\ disk' = [disk EXCEPT ![k] = r.content]
              /\ results' = Append(results, r)
              /\ updated_count' = IF r.ret THEN updated_count + 1 ELSE updated_count
    /\ idx' = idx + 1
    /\ log' = Append(log, "process")
    /\ UNCHANGED <<mpc, tree, rust_files, mexit, rvars, kvars>>

\* After the loop: subprocess.run(['cargo', 'fmt']); a non-zero return code is
\* printed, an exception (cargo cannot be started) is not caught
RunFormatter ==
    /\ mpc = "loop"
    /\ idx = Len(rust_files)
    /\ \E how \in {"ok", "returncode", "not_started"} :
          mexit' = IF how = "not_started" THEN "exit1" ELSE "exit0"
    /\ log' = Append(log, "fmt")
    /\ mpc' = "done"
    /\ UNCHANGED <<tree, rust_files, disk, idx, updated_count, results, rvars, kvars>>

NextMain == FindOk \/ FindFails \/ ProcessNext \/ RunFormatter

SpecMain == InitMain /\ [][NextMain]_vars

(***************************************************************************)
(* convert_tool_errors as a function: applied to a content, then to its    *)
(* own output.                                                             *)
(***************************************************************************)
MaxFrags == 3

Fragments ==
    { <<"A">>,
      <<"Result", "<">>,
      <<",", " ", "ToolError", ">">>,
      ResultSig,
      <<"ToolError">>,
      <<"ToolError", "::", "ExecutionError", "(">>,
      <<"ToolError", "::", "InvalidParameters", "(">>,
      <<"ToolError", "::", "NotFound", "(">>,
      <<"ToolError", "::", "SchemaError", "(">>,
      <<")">>,
      UseMulti,
      <<"}", ";">> }

RECURSIVE Flatten(_)
Flatten(pieces) ==
    IF pieces = <<>> THEN <<>> ELSE pieces[1] \o Flatten(Tail(pieces))

Inputs == { Flatten(fs) : fs \in UNION { [1..n -> Fragments] : n \in 0..MaxFrags } }

NotRun == [content |-> <<>>, changes_made |-> FALSE]

InitRules ==
    /\ rpc = "start"
    /\ content0 \in Inputs
    /\ pass1 = NotRun /\ pass2 = NotRun
    /\ InitMainIdle /\ InitKeyIdle

FirstPass ==
    /\ rpc = "start"
    /\ pass1' = convert_tool_errors(content0)
    /\ rpc' = "once"
    /\ UNCHANGED <<content0, pass2, mvars, kvars>>

SecondPass ==
    /\ rpc = "once"
    /\ pass2' = convert_tool_errors(pass1.content)
    /\ rpc' = "twice"
    /\ UNCHANGED <<content0, pass1, mvars, kvars>>

NextRules == FirstPass \/ SecondPass

SpecRules == InitRules /\ [][NextRules]_vars

(***************************************************************************)
(* send_key.py.  A pull-request body is a token sequence over the marker   *)
(* opening "<!--EMAIL:", the closing "-->", the base64 characters Y, / and *)
(* = and "x", a character outside [A-Za-z0-9+/=].                          *)
(***************************************************************************)
B64Chars == {"Y", "/", "="}

\* The value of a base64 digit
B64Val(c) == IF c = "Y" THEN 24 ELSE 63

\* The first index >= i whose token is not in class
RECURSIVE RunIn(_, _, _)
RunIn(s, i, class) ==
    IF i <= Len(s) /\ s[i] \in class THEN RunIn(s, i + 1, class) ELSE i

\* re.search(r"<!--EMAIL:([A-Za-z0-9+/=]+)-->", pr_body) from index i on
RECURSIVE re_search_from(_, _)
re_search_from(s, i) ==
    IF i > Len(s) THEN [ok |-> FALSE, group1 |-> <<>>]
    ELSE LET k == RunIn(s, i + 1, B64Chars)
         IN  IF s[i] = "<!--EMAIL:" /\ k > i + 1 /\ HasAt(s, k, <<"-->">>)
             THEN [ok |-> TRUE, group1 |-> SubSeq(s, i + 1, k - 1)]
             ELSE re_search_from(s, i + 1)

re_search(s) == re_search_from(s, 1)

\* base64.b64decode(s): binascii.a2b_base64 without validation, on digits and
\* pads only.  A pad ends the input once the quad holds two digits and the
\* pads fill it; input that ends inside a quad is an error.
RECURSIVE a2b_base64(_, _, _, _, _, _)
a2b_base64(s, i, quad_pos, leftchar, pads, out) ==
    IF i > Len(s)
    THEN [ok |-> quad_pos = 0, bytes |-> out]
    ELSE IF s[i] = "="
    THEN IF quad_pos >= 2 /\ quad_pos + pads + 1 >= 4
         THEN [ok |-> TRUE, bytes |-> out]
         ELSE a2b_base64(s, i + 1, quad_pos, leftchar,
                         IF quad_pos >= 2 THEN pads + 1 ELSE pads, out)
    ELSE LET v == B64Val(s[i])
         IN  CASE quad_pos = 0 -> a2b_base64(s, i + 1, 1, v, 0, out)
               [] quad_pos = 1 ->
                    a2b_base64(s, i + 1, 2, v % 16, 0, Append(out, leftchar * 4 + v \div 16))
               [] quad_pos = 2 ->
                    a2b_base64(s, i + 1, 3, v % 4, 0, Append(out, leftchar * 16 + v \div 4))
               [] quad_pos = 3 ->
                    a2b_base64(s, i + 1, 0, 0, 0, Append(out, leftchar * 64 + v))

b64decode(s) == a2b_base64(s, 1, 0, 0, 0, <<>>)

\* bytes.decode("utf-8") succeeds: b[i..] is well-formed UTF-8
IsCont(b, i) == i <= Len(b) /\ b[i] \in 128..191

RECURSIVE utf8_ok(_, _)
utf8_ok(b, i) ==
    IF i > Len(b) THEN TRUE
    ELSE LET c == b[i]
             second(lo, hi) == i + 1 <= Len(b) /\ b[i + 1] \in lo..hi
         IN  CASE c < 128         -> utf8_ok(b, i + 1)
               [] c \in 194..223  -> IsCont(b, i + 1) /\ utf8_ok(b, i + 2)
               [] c = 224         -> second(160, 191) /\ IsCont(b, i + 2) /\ utf8_ok(b, i + 3)
               [] c \in 225..236 \cup 238..239 ->
                                     IsCont(b, i + 1) /\ IsCont(b, i + 2) /\ utf8_ok(b, i + 3)
               [] c = 237         -> second(128, 159) /\ IsCont(b, i + 2) /\ utf8_ok(b, i + 3)
               [] c = 240         -> /\ second(144, 191) /\ IsCont(b, i + 2)
                                     /\ IsCont(b, i + 3) /\ utf8_ok(b, i + 4)
               [] c \in 241..243  -> /\ IsCont(b, i + 1) /\ IsCont(b, i + 2)
                                     /\ IsCont(b, i + 3) /\ utf8_ok(b, i + 4)
               [] c = 244         -> /\ second(128, 143) /\ IsCont(b, i + 2)
                                     /\ IsCont(b, i + 3) /\ utf8_ok(b, i + 4)
               [] OTHER           -> FALSE

MaxPieces == 4

BodyPieces ==
    { <<"<!--EMAIL:">>, <<"-->">>, <<"x">>,
      <<"Y", "Y", "=", "=">>,        \* base64 of "a"
      <<"/", "Y", "=", "=">>,        \* base64 of the byte 0xFD, not UTF-8
      <<"Y", "Y">>,                  \* a quad cut short
      <<"=">> }

BodyTexts == { Flatten(ps) : ps \in UNION { [1..n -> BodyPieces] : n \in 0..MaxPieces } }

\* pr_data.get("body", ""): a string, the default "" when the key is absent,
\* or None when the pull request's body is JSON null
StrBody(text) == [kind |-> "str", text |-> text]
NullBody      == [kind |-> "null", text |-> <<>>]
UnsetBody     == [kind |-> "unset", text |-> <<>>]
Bodies        == { StrBody(t) : t \in BodyTexts } \cup { NullBody }

NoEmail == [set |-> FALSE, bytes |-> <<>>]

InitKey ==
    /\ kpc = "env"
    /\ pr_body = UnsetBody
    /\ email = NoEmail
    /\ calls = <<>>
    /\ email_raised = FALSE
    /\ kfail = "none"
    /\ kexit = "running"
    /\ InitRulesIdle /\ InitMainIdle

\* An unhandled exception, or exit(0): the run is over
Abort(why) == kpc' = "done" /\ kexit' = "exit1" /\ kfail' = why
ExitClean  == kpc' = "done" /\ kexit' = "exit0" /\ kfail' = "none"

\* Lines 9-12: os.environ[...] raises KeyError for a variable that is not set
LoadEnv ==
    /\ kpc = "env"
    /\ \/ kpc' = "fetch" /\ UNCHANGED <<kexit, kfail>>
       \/ Abort("env")
    /\ UNCHANGED <<pr_body, email, calls, email_raised, rvars, mvars>>

\* Step 1: requests.get, raise_for_status, the fields of the answer
FetchPR ==
    /\ kpc = "fetch"
    /\ calls' = Append(calls, "fetch")
    /\ \/ \E b \in Bodies :
             /\ pr_body' = b
             /\ kpc' = "extract"
             /\ UNCHANGED <<kexit, kfail>>
       \/ \E why \in {"fetch_http", "fetch_connection", "fetch_data"} :
             Abort(why) /\ UNCHANGED pr_body
    /\ UNCHANGED <<email, email_raised, rvars, mvars>>

\* Mutant of ExtractEmail: a payload that fails to decode is used as it is
ExtractEmailLenient ==
    /\ kpc = "extract"
    /\ IF pr_body.kind = "null"
       THEN Abort("search_type") /\ UNCHANGED email
       ELSE LET match   == re_search(pr_body.text)
                decoded == b64decode(match.group1)
            IN  IF ~match.ok THEN ExitClean /\ UNCHANGED email
                ELSE /\ email' = [set |-> TRUE, bytes |-> decoded.bytes]
                     /\ kpc' = "provision"
                     /\ UNCHANGED <<kexit, kfail>>
    /\ UNCHANGED <<pr_body, calls, email_raised, rvars, mvars>>

\* Step 2: re.search on the body, exit(0) without a match, else the decoding
ExtractEmail ==
    /\ kpc = "extract"
    /\ IF pr_body.kind = "null"
       THEN Abort("search_type") /\ UNCHANGED email     \* re.search(pattern, None)
       ELSE LET match   == re_search(pr_body.text)
                decoded == b64decode(match.group1)
            IN  IF ~match.ok THEN ExitClean /\ UNCHANGED email
                ELSE IF ~decoded.ok THEN Abort("b64decode") /\ UNCHANGED email
                ELSE IF ~utf8_ok(decoded.bytes, 1) THEN Abort("utf8") /\ UNCHANGED email
                ELSE /\ email' = [set |-> TRUE, bytes |-> decoded.bytes]
                     /\ kpc' = "provision"
                     /\ UNCHANGED <<kexit, kfail>>
    /\ UNCHANGED <<pr_body, calls, email_raised, rvars, mvars>>

\* Mutant of ProvisionKey: no raise_for_status, an HTTP error status goes on
ProvisionKeyNoRaise ==
    /\ kpc = "provision"
    /\ calls' = Append(calls, "provision")
    /\ \/ kpc' = "email" /\ UNCHANGED <<kexit, kfail>>
       \/ kpc' = "email" /\ kfail' = "provision_http" /\ UNCHANGED kexit
       \/ \E why \in {"provision_connection", "provision_data"} : Abort(why)
    /\ UNCHANGED <<pr_body, email, email_raised, rvars, mvars>>

\* Step 3: requests.post to the provisioning service, raise_for_status, ["key"]
ProvisionKey ==
    /\ kpc = "provision"
    /\ calls' = Append(calls, "provision")
    /\ \/ kpc' = "email" /\ UNCHANGED <<kexit, kfail>>
       \/ \E why \in {"provision_http", "provision_connection", "provision_data"} :
             Abort(why)
    /\ UNCHANGED <<pr_body, email, email_raised, rvars, mvars>>

\* Mutant of SendEmail: no try / except around sg.send(message)
SendEmailUncaught ==
    /\ kpc = "email"
    /\ calls' = Append(calls, "email")
    /\ \/ email_raised' = FALSE /\ kpc' = "comment" /\ UNCHANGED <<kfail, kexit>>
       \/ email_raised' = TRUE /\ Abort("email_send")
    /\ UNCHANGED <<pr_body, email, rvars, mvars>>

\* Step 4: sg.send(message) inside try / except Exception
SendEmail ==
    /\ kpc = "email"
    /\ calls' = Append(calls, "email")
    /\ \E raised \in BOOLEAN : email_raised' = raised
    /\ kpc' = "comment"
    /\ UNCHANGED <<pr_body, email, kfail, kexit, rvars, mvars>>

\* Step 5: requests.post of the comment, raise_for_status
PostComment ==
    /\ kpc = "comment"
    /\ calls' = Append(calls, "comment")
    /\ \/ ExitClean
       \/ \E why \in {"comment_http", "comment_connection"} : Abort(why)
    /\ UNCHANGED <<pr_body, email, email_raised, rvars, mvars>>

NextKey == LoadEnv \/ FetchPR \/ ExtractEmail \/ ProvisionKey \/ SendEmail \/ PostComment

SpecKey == InitKey /\ [][NextKey]_vars

(***************************************************************************)
(* Properties of send_key.py (under SpecKey)                               *)
(***************************************************************************)
Fetched == pr_body.kind # "unset"

\* The text holds <!--EMAIL:, one or more base64 characters, -->
HasMarker(text) ==
    \E i, k \in 1..Len(text) :
        /\ text[i] = "<!--EMAIL:"
        /\ k > i + 1
        /\ text[k] = "-->"
        /\ \A j \in (i + 1)..(k - 1) : text[j] \in B64Chars

NoMarker(body) == body.kind = "null" \/ ~HasMarker(body.text)

\* C1: for a fetched pull request whose body holds no marker, a null body
\* included, the only call of the run is the fetch and the run ends with exit
\* status 0.
C1_NoMarkerNoAction ==
    (Fetched /\ NoMarker(pr_body)) =>
        /\ calls = <<"fetch">>
        /\ kpc = "done" => kexit = "exit0"

\* C2: when the email-send call has raised, the run goes on to the comment
\* post, and its exit status is 0 exactly when the comment post succeeded.
C2_EmailFailureNotFatal ==
    email_raised =>
        /\ kpc \in {"comment", "done"}
        /\ kpc = "done" =>
              /\ calls = <<"fetch", "provision", "email", "comment">>
              /\ kexit = IF kfail \in {"comment_http", "comment_connection"}
                         THEN "exit1" ELSE "exit0"

C2_Witness ==
    email_raised /\ kpc = "done" /\ kexit = "exit0" /\ calls[Len(calls)] = "comment"

\* C3: a failed fetch, provisioning or comment call ends the run with a
\* non-zero status; the failed call is the last call made and was made once.
C3_HttpFailureAborts ==
    /\ kfail \in {"fetch_http", "fetch_connection"} =>
          kpc = "done" /\ kexit = "exit1" /\ calls = <<"fetch">>
    /\ kfail \in {"provision_http", "provision_connection"} =>
          kpc = "done" /\ kexit = "exit1" /\ calls = <<"fetch", "provision">>
    /\ kfail \in {"comment_http", "comment_connection"} =>
          /\ kpc = "done" /\ kexit = "exit1"
          /\ calls = <<"fetch", "provision", "email", "comment">>

C3_Witness == kfail = "provision_http" /\ kpc = "done"

CallRank(c) ==
    CASE c = "fetch" -> 1 [] c = "provision" -> 2 [] c = "email" -> 3 [] c = "comment" -> 4

\* C10: a key is provisioned only with a decoded email address; a marker whose
\* payload fails base64 or UTF-8 decoding ends the run with a non-zero status
\* after the fetch alone; the calls of a run are made at most once each, in
\* the order fetch, provision, email, comment.
C10_DecodeBeforeProvision ==
    /\ (\E i \in 1..Len(calls) : calls[i] = "provision") =>
          /\ email.set
          /\ pr_body.kind = "str" /\ HasMarker(pr_body.text)
          /\ email.bytes = b64decode(re_search(pr_body.text).group1).bytes
    /\ ( /\ pr_body.kind = "str" /\ HasMarker(pr_body.text) /\ kpc # "extract"
         /\ LET d == b64decode(re_search(pr_body.text).group1)
            IN  ~d.ok \/ ~utf8_ok(d.bytes, 1) ) =>
          kpc = "done" /\ kexit = "exit1" /\ calls = <<"fetch">>
    /\ \A i, j \in 1..Len(calls) : i < j => CallRank(calls[i]) < CallRank(calls[j])

C10_Witness == kfail = "utf8" /\ kpc = "done" /\ HasMarker(pr_body.text)

(***************************************************************************)
(* Properties of convert_tool_error.py (under SpecMain)                    *)
(***************************************************************************)
NoRuleMatches(content) ==
    \A n \in 1..Len(Patterns) : \A i \in 1..Len(content) : ~Match(Patterns[n], content, i).ok

Untouched(k) == disk[k] = tree[k].content

\* C4: process_file opens a file for writing only if a rule matched its
\* content; a file without ToolError, or with ToolError and no match, is not
\* opened for writing, keeps its content and makes process_file return False.
C4_WriteOnlyIfChanged ==
    \A k \in 1..Len(results) :
        /\ results[k].opened => ~NoRuleMatches(tree[k].content)
        /\ (~Contains(tree[k].content, <<"ToolError">>) \/ NoRuleMatches(tree[k].content)) =>
              ~results[k].opened /\ Untouched(k) /\ ~results[k].ret

C4_Witness ==
    \E k \in 1..Len(results) :
        /\ Contains(tree[k].content, <<"ToolError">>)
        /\ NoRuleMatches(tree[k].content)
        /\ ~Contains(tree[k].path, <<"target">>)
        /\ ~results[k].caught

\* C6: a file whose path contains /target/ is never opened for writing and
\* keeps its content, whatever that content is.
C6_TargetNeverWritten ==
    \A k \in 1..Len(tree) :
        Contains(tree[k].path, <<"/", "target", "/">>) =>
            /\ Untouched(k)
            /\ k <= Len(results) => ~results[k].opened

C6_Witness ==
    \E k \in 1..Len(results) :
        /\ Contains(tree[k].path, <<"/", "target", "/">>)
        /\ tree[k].content = NotFoundCall
        /\ ~results[k].caught

Discovered == Len(log) >= 1 /\ log[1] = "find"

\* C8: an exception while one file is processed is caught, the files after it
\* are processed, and a run whose discovery succeeded ends with exit status 0.
C8_PerFileErrorsNotFatal ==
    (mpc = "done" /\ Discovered) =>
        /\ Len(results) = Len(rust_files)
        /\ mexit = "exit0"

\* C9: the formatter is invoked once, after every discovered file has been
\* processed, in each run whose discovery succeeded; a run whose discovery
\* failed ends non-zero with no file processed and no formatter invoked.
C9_FormatterOnceAtEnd ==
    /\ \A i \in 1..Len(log) :
          log[i] = "fmt" =>
              /\ i = Len(log)
              /\ i = Len(tree) + 2
              /\ \A j \in 2..(i - 1) : log[j] = "process"
    /\ (mpc = "done" /\ Discovered) => log[Len(log)] = "fmt"
    /\ (mpc = "done" /\ ~Discovered) =>
          mexit = "exit1" /\ Len(log) = 1 /\ results = <<>> /\ disk = [k \in 1..Len(tree) |-> tree[k].content]

\* The part of C8 that does not depend on the formatter: whatever happens to a
\* file, the loop goes on until every discovered file has been processed.
C8_LoopProcessesEveryFile ==
    /\ (mpc = "loop") => mexit = "running"
    /\ (mpc = "done" /\ Discovered) => Len(results) = Len(rust_files)

C9_Witness == mpc = "done" /\ Len(tree) = MaxFiles /\ log[Len(log)] = "fmt"

(***************************************************************************)
(* Properties of convert_tool_errors (under SpecRules)                     *)
(***************************************************************************)

\* C5: a second application of the rules to the output of the first changes
\* nothing.
C5_Idempotent ==
    rpc = "twice" => ~pass2.changes_made /\ pass2.content = pass1.content

\* The constructor calls ToolError::V(arg) of a content with a non-empty,
\* parenthesis-free arg: each as (index of ToolError, V, index of the closing
\* parenthesis)
Variants == {"ExecutionError", "InvalidParameters", "NotFound", "SchemaError"}

CtorCalls(c) ==
    { x \in (1..Len(c)) \X Variants \X (1..Len(c)) :
        /\ HasAt(c, x[1], <<"ToolError", "::", x[2], "(">>)
        /\ x[3] > x[1] + 4
        /\ c[x[3]] = ")"
        /\ \A j \in (x[1] + 4)..(x[3] - 1) : c[j] \notin {"(", ")"} }

ClaimedCode(variant) ==
    CASE variant = "ExecutionError"    -> "INTERNAL_ERROR"
      [] variant = "InvalidParameters" -> "INVALID_PARAMS"
      [] variant = "NotFound"          -> "INVALID_REQUEST"
      [] variant = "SchemaError"       -> "INVALID_PARAMS"

Expected(c, x) ==
    <<"ErrorData", "::", "new", "(", "ErrorCode", "::", ClaimedCode(x[2]), ",", " ">>
        \o SubSeq(c, x[1] + 4, x[3] - 1) \o <<",", " ", "None", ")">>

OnlyCtorHeads(c) ==
    \A i \in 1..Len(c) : c[i] = "ToolError" => \E x \in CtorCalls(c) : x[1] = i

=============================================================================
